---- MODULE Spec2Model ----
(***************************************************************************)
(* Model of the oracle feeder's voting loop (feeder/src/index.ts):         *)
(* the price aggregator getPrices, the tx confirmation poll waitTx and the *)
(* while(true) loop of vote() with its prevote memory.                     *)
(***************************************************************************)
EXTENDS Integers, Sequences, FiniteSets, TLC

(* ------------------------------------------------------------------ *)
(* Bounds of the model                                                *)
(* ------------------------------------------------------------------ *)

\* number of blocks the chain produces in one run
MaxBlocks == 10

\* number of blocks of a run that keeps failed broadcasts on record
RetryBlocks == 8

\* number of blocks of a run that follows waitTx round by round
WaitBlocks == 2

(* ------------------------------------------------------------------ *)
(* Program constants and configuration                                *)
(* ------------------------------------------------------------------ *)

\* "Ignore prices more than 30 seconds ago": 30 * 1000 ms
MaxAgeMs == 30 * 1000

\* const secTimeout = 45: the rounds of waitTx
secTimeout == 45

\* oracleParams.vote_period as fetched once at startup
oracleVotePeriod == 5

\* JavaScript's undefined, for string-valued slots (prices, salts)
Undefined == "undefined"

\* JavaScript's undefined and NaN, for number-valued slots
UndefinedNum == 0 - 1
NaN == 0 - 2

\* heights at which the process may be started
InitHeights == {1, 97}

\* currency codes the price sources may report, in the order they list them
CurrencyOrder == <<"krw", "USD", "eur">>

CurrencyCodes == {CurrencyOrder[i] : i \in 1..Len(CurrencyOrder)}

\* decimal price strings
Prices == {"1150.5", "1151.0"}

\* 4-hex-character salts
Salts == {"0a1b", "f3c2"}

\* args.validator || [voter.terraValAddress]
valAddrs == <<"terravaloper1a", "terravaloper1b">>

\* voter.terraAddress
terraAddress == "terra1feeder"

\* the values of --denoms the model runs with
DenomsArgs == {"krw,usd", "all"}

(* ------------------------------------------------------------------ *)
(* Pure helpers                                                       *)
(* ------------------------------------------------------------------ *)

\* String.prototype.toLowerCase on the currency codes of the model
toLowerCase(s) ==
  CASE s = "USD" -> "usd"
    [] s = "KRW" -> "krw"
    [] s = "EUR" -> "eur"
    [] OTHER -> s

\* denoms.split(',').map(s => s.toLowerCase())
denomArrayOf(denoms) ==
  CASE denoms = "krw,usd" -> <<"krw", "usd">>
    [] denoms = "all" -> <<"all">>
    [] OTHER -> <<toLowerCase(denoms)>>

\* variant: no currency is filtered out
NotInFilterNever(denomArray, currency) == FALSE

\* denomArray.indexOf(currency.toLowerCase()) === -1
NotInFilter(denomArray, currency) ==
  \A i \in 1..Len(denomArray) : denomArray[i] # toLowerCase(currency)

\* const denom = `u${currency.toLowerCase()}`
DenomOf(currency) == "u" \o toLowerCase(currency)

\* JavaScript truthiness of a number-or-undefined value
Truthy(x) == x # UndefinedNum /\ x # NaN /\ x # 0

\* Math.floor(currentBlockHeight / oracleVotePeriod)
VotePeriodOf(h) == h \div oracleVotePeriod

\* currentBlockHeight % oracleVotePeriod
IndexInVotePeriod(h) == h % oracleVotePeriod

\* variant: the gate has no phase term
GateSkipsOncePerPeriodOnly(indexInVotePeriod, prevPeriod, period) ==
  Truthy(prevPeriod) /\ prevPeriod = period

\* variant: the tick whose index equals oracleVotePeriod - 3 is skipped too
GateSkipsAtMargin(indexInVotePeriod, prevPeriod, period) ==
  \/ indexInVotePeriod <= oracleVotePeriod - 3
  \/ (Truthy(prevPeriod) /\ prevPeriod = period)

\* the "skip(wait) until period is about to end" condition
GateSkips(indexInVotePeriod, prevPeriod, period) ==
  \/ indexInVotePeriod < oracleVotePeriod - 3
  \/ (Truthy(prevPeriod) /\ prevPeriod = period)

\* if (prevotePeriod && votePeriod - prevotePeriod === 1)
RevealEligible(prevPeriod, period) ==
  Truthy(prevPeriod) /\ period - prevPeriod = 1

\* msg.generateVoteHash(salt, price, denom, valAddr)
generateVoteHash(salt, price, denom, valAddr) ==
  <<"sha256", salt, price, denom, valAddr>>

\* msg.generateVoteMsg(price, salt, denom, feeder, valAddr)
generateVoteMsg(price, salt, denom, feeder, valAddr) ==
  [type |-> "oracle/MsgExchangeRateVote", exchange_rate |-> price, salt |-> salt,
   denom |-> denom, feeder |-> feeder, validator |-> valAddr]

\* msg.generatePrevoteMsg(hash, denom, feeder, valAddr)
generatePrevoteMsg(hash, denom, feeder, valAddr) ==
  [type |-> "oracle/MsgExchangeRatePrevote", hash |-> hash,
   denom |-> denom, feeder |-> feeder, validator |-> valAddr]

\* concatenation of a sequence of sequences
RECURSIVE Flatten(_)
Flatten(ss) == IF ss = <<>> THEN <<>> ELSE Head(ss) \o Flatten(Tail(ss))

\* the entries of a price list that pass the denom filter, in order
Filtered(denomArray, prices) ==
  SelectSeq(prices, LAMBDA e : ~NotInFilter(denomArray, e.currency))

\* the currencies of a price list
CurrenciesOf(prices) == {prices[i].currency : i \in 1..Len(prices)}

\* The "Vote" block throws: prevotePrices[currency].toString() is a TypeError
\* when the vote branch is taken and the entry of a filtered currency is undefined.
VoteBuildThrows(denomArray, prices, memPrices, prevPeriod, period) ==
  /\ RevealEligible(prevPeriod, period)
  /\ LET f == Filtered(denomArray, prices) IN
     \E i \in 1..Len(f) : memPrices[f[i].currency] = Undefined

\* variant: the reveal carries the price of the current sample
BuildVoteMsgsFromSample(denomArray, prices, memPrices, memSalts, prevPeriod, period) ==
  IF ~RevealEligible(prevPeriod, period) THEN <<>>
  ELSE LET f == Filtered(denomArray, prices) IN
       Flatten([i \in 1..Len(f) |->
          [v \in 1..Len(valAddrs) |->
             generateVoteMsg(f[i].price, memSalts[f[i].currency],
                             DenomOf(f[i].currency), terraAddress, valAddrs[v])]])

\* The "Vote" block: reveal messages read from prevotePrices/prevoteSalts,
\* one per filtered price entry and validator.
BuildVoteMsgs(denomArray, prices, memPrices, memSalts, prevPeriod, period) ==
  IF ~RevealEligible(prevPeriod, period) THEN <<>>
  ELSE LET f == Filtered(denomArray, prices) IN
       Flatten([i \in 1..Len(f) |->
          [v \in 1..Len(valAddrs) |->
             generateVoteMsg(memPrices[f[i].currency], memSalts[f[i].currency],
                             DenomOf(f[i].currency), terraAddress, valAddrs[v])]])

\* variant: prevotes are built for the first filtered price only
BuildPrevoteMsgsFirstOnly(denomArray, prices, salts) ==
  LET f == Filtered(denomArray, prices) IN
  Flatten([i \in 1..(IF Len(f) > 0 THEN 1 ELSE 0) |->
     [v \in 1..Len(valAddrs) |->
        generatePrevoteMsg(
          generateVoteHash(salts[i], f[i].price, DenomOf(f[i].currency), valAddrs[v]),
          DenomOf(f[i].currency), terraAddress, valAddrs[v])]])

\* The "Prevote" block: one message per filtered price and validator, with
\* the salt drawn for that price entry (salts[i] for the i-th filtered entry).
BuildPrevoteMsgs(denomArray, prices, salts) ==
  LET f == Filtered(denomArray, prices) IN
  Flatten([i \in 1..Len(f) |->
     [v \in 1..Len(valAddrs) |->
        generatePrevoteMsg(
          generateVoteHash(salts[i], f[i].price, DenomOf(f[i].currency), valAddrs[v]),
          DenomOf(f[i].currency), terraAddress, valAddrs[v])]])

\* index of the last filtered entry for currency c (later entries overwrite)
LastIndexOf(f, c) ==
  LET S == {i \in 1..Len(f) : f[i].currency = c} IN
  CHOOSE i \in S : \A j \in S : j <= i

\* priceUpdateMap[currency] = price
PriceUpdateMap(denomArray, prices) ==
  LET f == Filtered(denomArray, prices) IN
  [c \in CurrencyCodes |->
     IF c \in CurrenciesOf(f) THEN f[LastIndexOf(f, c)].price ELSE Undefined]

\* priceUpdateSaltMap[currency] = <salt>
PriceUpdateSaltMap(denomArray, prices, salts) ==
  LET f == Filtered(denomArray, prices) IN
  [c \in CurrencyCodes |->
     IF c \in CurrenciesOf(f) THEN salts[LastIndexOf(f, c)] ELSE Undefined]

\* Object.assign(target, update)
ObjectAssign(target, update) ==
  [c \in CurrencyCodes |-> IF update[c] # Undefined THEN update[c] ELSE target[c]]

(* ------------------------------------------------------------------ *)
(* Price sources and getPrices                                        *)
(* ------------------------------------------------------------------ *)

\* args.source: the configured price sources
sources == <<"source1", "source2">>

SourceIds == 1..Len(sources)

\* values of Date.now() at the moment getPrices filters
NowValues == {100000}

\* ages (ms) of the created_at instants the sources may report
AgeValues == {0 - 5000, 0, 30000, 30001, 45000}

\* data.created_at: an ISO date string of instant ms, a string that is no
\* date, or a value that is no string
IsoString(ms) == [kind |-> "iso", ms |-> ms]
TextString == [kind |-> "text", ms |-> 0]
NotAString == [kind |-> "number", ms |-> 0]

CreatedAtValues(n) == {IsoString(n - a) : a \in AgeValues} \cup {TextString, NotAString}

\* typeof data.created_at === 'string'
IsString(c) == c.kind \in {"iso", "text"}

\* new Date(data.created_at).getTime(): NaN for a string that is no date
DateGetTime(c) == IF c.kind = "iso" THEN c.ms ELSE NaN

\* a - b in JavaScript numbers
JsMinus(a, b) == IF a = NaN \/ b = NaN THEN NaN ELSE a - b

\* a > b in JavaScript numbers: false when either side is NaN
JsGreater(a, b) == a # NaN /\ b # NaN /\ a > b

\* the predicate of results.filter(({ data }) => ...)
PassesFilter(n, data) ==
  IF ~IsString(data.created_at) \/ ~data.pricesIsArray THEN FALSE
  ELSE IF JsGreater(JsMinus(n, DateGetTime(data.created_at)), MaxAgeMs) THEN FALSE
  ELSE TRUE

\* Bluebird.some(promises, 1): the array holding the first fulfilled value
BluebirdSome1(first) == <<first>>

\* the body of getPrices after Bluebird.some resolved with `results`:
\* ok = FALSE stands for throw new Error('could not fetch any price')
GetPricesAfterSome(n, results) ==
  LET kept == SelectSeq(results, LAMBDA r : PassesFilter(n, r)) IN
  IF Len(kept) = 0 THEN [ok |-> FALSE, prices |-> <<>>]
  ELSE [ok |-> TRUE, prices |-> kept[1].prices]

\* the price lists of the aggregator's model
AggPriceLists ==
  {<<[currency |-> "krw", price |-> p]>> : p \in Prices}

\* what a source may answer: rejected (no data), or a body
AggResponses(n) ==
  {[fulfilled |-> FALSE, created_at |-> NotAString, pricesIsArray |-> FALSE, prices |-> <<>>]}
  \cup {[fulfilled |-> TRUE, created_at |-> c, pricesIsArray |-> TRUE, prices |-> pl] :
          c \in CreatedAtValues(n), pl \in AggPriceLists}
  \cup {[fulfilled |-> TRUE, created_at |-> c, pricesIsArray |-> FALSE, prices |-> <<>>] :
          c \in CreatedAtValues(n)}

VARIABLES
  now,          \* Date.now()
  srcPlan,      \* what each source is going to answer
  srcSettled,   \* the sources whose request has settled
  someFirst,    \* <<s>> once Bluebird.some resolved with source s, else <<>>
  aggStatus,    \* "idle", "pending", "returned", "threw"
  aggPrices     \* the list getPrices returned

aggVars == <<now, srcPlan, srcSettled, someFirst, aggStatus, aggPrices>>

\* getPrices is not running
AggIdle ==
  /\ now \in NowValues
  /\ srcPlan = [s \in SourceIds |->
       [fulfilled |-> FALSE, created_at |-> NotAString, pricesIsArray |-> FALSE, prices |-> <<>>]]
  /\ srcSettled = {}
  /\ someFirst = <<>>
  /\ aggStatus = "idle"
  /\ aggPrices = <<>>

\* getPrices(sources) has issued ax.get on every source
AggStarted ==
  /\ now \in NowValues
  /\ srcPlan \in [SourceIds -> AggResponses(now)]
  /\ srcSettled = {}
  /\ someFirst = <<>>
  /\ aggStatus = "pending"
  /\ aggPrices = <<>>

\* ax.get(s) fulfils; when it is the first, Bluebird.some resolves and
\* getPrices filters and returns or throws
SourceFulfils(s) ==
  /\ s \notin srcSettled
  /\ srcPlan[s].fulfilled
  /\ srcSettled' = srcSettled \cup {s}
  /\ IF someFirst = <<>>
     THEN LET r == GetPricesAfterSome(now, BluebirdSome1(srcPlan[s])) IN
          /\ someFirst' = <<s>>
          /\ aggStatus' = IF r.ok THEN "returned" ELSE "threw"
          /\ aggPrices' = r.prices
     ELSE UNCHANGED <<someFirst, aggStatus, aggPrices>>
  /\ UNCHANGED <<now, srcPlan>>

\* ax.get(s) rejects; when every source has rejected, Bluebird.some rejects
SourceRejects(s) ==
  /\ s \notin srcSettled
  /\ ~srcPlan[s].fulfilled
  /\ srcSettled' = srcSettled \cup {s}
  /\ aggStatus' = IF srcSettled' = SourceIds /\ someFirst = <<>>
                  THEN "threw" ELSE aggStatus
  /\ UNCHANGED <<now, srcPlan, someFirst, aggPrices>>

(* ------------------------------------------------------------------ *)
(* The voting loop of vote()                                          *)
(* ------------------------------------------------------------------ *)

\* a price missing from a sample
Absent == "absent"

\* the price list in which the sources report f[c] for currency c
SampleOf(f) ==
  SelectSeq([i \in 1..Len(CurrencyOrder) |->
               [currency |-> CurrencyOrder[i], price |-> f[CurrencyOrder[i]]]],
            LAMBDA e : e.price # Absent)

\* the prices the sources may report for currency c
PricesFor(c) == IF c = "eur" THEN {"1.0"} ELSE Prices

\* the price lists the sources may report to the loop
Samples ==
  {SampleOf(f) : f \in {g \in [CurrencyCodes -> Prices \cup {"1.0", Absent}] :
                          \A c \in CurrencyCodes : g[c] \in PricesFor(c) \cup {Absent}}}

\* the first fulfilled responses the loop's getPrices may see
LoopResponses(n) ==
  {[fulfilled |-> TRUE, created_at |-> c, pricesIsArray |-> TRUE, prices |-> pl] :
     c \in {IsoString(n), IsoString(n - 45000)}, pl \in Samples}

\* application codes of a transaction: 0 is success
TxCodes == {0, 4}

NoTx == [status |-> "none", height |-> 0, code |-> 0]
PendingTx == [status |-> "pending", height |-> 0, code |-> 0]
IncludedTx(h, c) == [status |-> "included", height |-> h, code |-> c]

NoUpdate == [c \in CurrencyCodes |-> Undefined]

\* the outcomes of an iteration whose broadcast was made and failed
FailedBroadcasts == {"broadcastError", "broadcastRejected", "confirmTimeout", "confirmRejected"}

\* no failed broadcast in the previous iteration
NoTry == [failed |-> FALSE, period |-> UndefinedNum, currencies |-> {}, voteMsgs |-> <<>>]

VARIABLES
  height,              \* height of the chain's latest block
  blocks,              \* blocks produced since the process started
  chainTx,             \* the broadcast transaction as the chain holds it
  denomArray,          \* denoms.split(',').map(toLowerCase)
  prevotePrices,       \* currency -> price of the last confirmed prevote
  prevoteSalts,        \* currency -> salt of the last confirmed prevote
  prevotePeriod,       \* period of the last confirmed prevote transaction
  pc,                  \* position of the loop
  currentBlockHeight,  \* height sampled by the iteration
  votePeriod,          \* period sampled by the iteration
  prices,              \* the iteration's price sample
  voteMsgs,            \* reveal messages of the iteration
  prevoteMsgs,         \* prevote messages of the iteration
  priceUpdateMap,      \* prices prevoted by the iteration
  priceUpdateSaltMap,  \* salts prevoted by the iteration
  outcome,             \* how the iteration's try block ended
  startMem,            \* history: the memory when the iteration started
  memPeriod,           \* history: currency -> period in which its entry was confirmed
  committed,           \* history: currency -> hashes of its prevote messages in the
                       \*          confirmed transaction that last prevoted it
  confirmed,           \* history: sampled and inclusion period of each confirmed transaction
  slept,               \* history: the pacing sleep ran since the last iteration started
  lastTry,             \* history: period and reveals of the previous iteration when its
                       \*          broadcast failed, else NoTry
  t,                   \* waitTx: the counter of its for loop
  txQueries,           \* history: queryTx calls of the current waitTx call
  txDelays             \* history: one-second delays of the current waitTx call

loopVars == <<height, blocks, chainTx, denomArray, prevotePrices, prevoteSalts,
              prevotePeriod, pc, currentBlockHeight, votePeriod, prices, voteMsgs, prevoteMsgs,
              priceUpdateMap, priceUpdateSaltMap, outcome, startMem, memPeriod,
              committed, confirmed, slept, lastTry, t, txQueries, txDelays>>

vars == <<aggVars, loopVars>>

chainVars == <<height, blocks, chainTx>>
memVars == <<prevotePrices, prevoteSalts, prevotePeriod>>
histVars == <<memPeriod, committed, confirmed>>
tryVars == <<startMem, slept, lastTry>>
waitVars == <<t, txQueries, txDelays>>
localVars == <<currentBlockHeight, votePeriod, prices, voteMsgs, prevoteMsgs, priceUpdateMap, priceUpdateSaltMap>>

Memory == <<prevotePrices, prevoteSalts, prevotePeriod>>

\* state of vote() when it enters while (true)
InitLoop ==
  /\ height \in InitHeights
  /\ blocks = 0
  /\ chainTx = NoTx
  /\ denomArray \in {denomArrayOf(d) : d \in DenomsArgs}
  /\ prevotePrices = [c \in CurrencyCodes |-> Undefined]
  /\ prevoteSalts = [c \in CurrencyCodes |-> Undefined]
  /\ prevotePeriod = UndefinedNum
  /\ pc = "loop"
  /\ currentBlockHeight = UndefinedNum
  /\ votePeriod = UndefinedNum
  /\ prices = <<>>
  /\ voteMsgs = <<>>
  /\ prevoteMsgs = <<>>
  /\ priceUpdateMap = NoUpdate
  /\ priceUpdateSaltMap = NoUpdate
  /\ outcome = "none"
  /\ startMem = Memory
  /\ memPeriod = [c \in CurrencyCodes |-> UndefinedNum]
  /\ committed = [c \in CurrencyCodes |-> {}]
  /\ confirmed = <<>>
  /\ slept = TRUE
  /\ lastTry = NoTry
  /\ t = 0
  /\ txQueries = 0
  /\ txDelays = 0

\* variant: an exception other than 'skip' ends vote()
CatchTargetRethrow(e) == IF e # "skip" THEN "exited" ELSE "sleep"

\* variant: every caught value continues the loop at once
CatchTargetNoSleep(e) == "loop"

\* catch (e): 'skip' goes on to the pacing sleep, anything else is logged
\* and the loop continues at once
CatchTarget(e) == IF e # "skip" THEN "loop" ELSE "sleep"

\* the try block ends by throwing e; the loop never looks at the
\* iteration's transaction again
Throw(e) ==
  /\ pc' = CatchTarget(e)
  /\ outcome' = IF e = "skip" THEN "skip" ELSE "exception"
  /\ chainTx' = NoTx
  /\ lastTry' = IF CatchTarget(e) = "sleep" THEN lastTry ELSE NoTry

\* the try block ends normally with result o; the loop never looks at the
\* iteration's transaction again
EndTry(o) ==
  /\ pc' = "sleep"
  /\ outcome' = o
  /\ chainTx' = NoTx
  /\ UNCHANGED lastTry

\* const latestBlock = await queryLatestBlock(...) and the gate
QueryLatestBlock ==
  /\ pc = "loop"
  /\ startMem' = Memory
  /\ slept' = FALSE
  /\ prices' = <<>> /\ voteMsgs' = <<>> /\ prevoteMsgs' = <<>>
  /\ priceUpdateMap' = NoUpdate /\ priceUpdateSaltMap' = NoUpdate
  /\ \/ /\ currentBlockHeight' = height
        /\ votePeriod' = VotePeriodOf(height)
        /\ IF GateSkips(IndexInVotePeriod(height), prevotePeriod, VotePeriodOf(height))
           THEN pc' = CatchTarget("skip") /\ outcome' = "gated"
           ELSE pc' = "prices" /\ outcome' = "none"
        /\ UNCHANGED <<chainTx, lastTry>>
     \/ \* the request fails, or latestBlock.block is undefined
        /\ currentBlockHeight' = UndefinedNum
        /\ votePeriod' = UndefinedNum
        /\ Throw("Error")
  /\ UNCHANGED <<height, blocks, denomArray, memVars, histVars, aggVars, waitVars>>

\* const prices = await getPrices(source).catch(... throw 'skip')
GetPrices ==
  /\ pc = "prices"
  /\ \/ \E r \in LoopResponses(now) :
          LET res == GetPricesAfterSome(now, BluebirdSome1(r)) IN
          IF res.ok
          THEN /\ prices' = res.prices
               /\ pc' = "account"
               /\ UNCHANGED <<outcome, chainTx, lastTry>>
          ELSE /\ Throw("skip")
               /\ UNCHANGED prices
     \/ \* every source rejected
        /\ Throw("skip")
        /\ UNCHANGED prices
  /\ UNCHANGED <<height, blocks, denomArray, memVars, histVars, aggVars, waitVars, startMem, slept,
                 currentBlockHeight, votePeriod, voteMsgs, prevoteMsgs, priceUpdateMap, priceUpdateSaltMap>>

\* const account = await queryAccount(...).catch(... throw 'skip'), then the
\* Vote and Prevote blocks up to if (msgs.length)
QueryAccountAndBuild ==
  /\ pc = "account"
  /\ \/ \* the account query fails or is malformed
        /\ Throw("skip")
        /\ UNCHANGED <<voteMsgs, prevoteMsgs, priceUpdateMap, priceUpdateSaltMap>>
     \/ /\ VoteBuildThrows(denomArray, prices, prevotePrices, prevotePeriod, votePeriod)
        /\ Throw("TypeError")
        /\ UNCHANGED <<voteMsgs, prevoteMsgs, priceUpdateMap, priceUpdateSaltMap>>
     \/ /\ ~VoteBuildThrows(denomArray, prices, prevotePrices, prevotePeriod, votePeriod)
        /\ \E salts \in [1..Len(Filtered(denomArray, prices)) -> Salts] :
             /\ voteMsgs' = BuildVoteMsgs(denomArray, prices, prevotePrices, prevoteSalts,
                                          prevotePeriod, votePeriod)
             /\ prevoteMsgs' = BuildPrevoteMsgs(denomArray, prices, salts)
             /\ priceUpdateMap' = PriceUpdateMap(denomArray, prices)
             /\ priceUpdateSaltMap' = PriceUpdateSaltMap(denomArray, prices, salts)
        /\ IF Len(voteMsgs' \o prevoteMsgs') > 0
           THEN pc' = "sign" /\ UNCHANGED <<outcome, chainTx, lastTry>>
           ELSE EndTry("nomsgs")
  /\ UNCHANGED <<height, blocks, denomArray, memVars, histVars, aggVars, waitVars, startMem, slept,
                 currentBlockHeight, votePeriod, prices>>

\* wallet.sign, createSignedTx, and await broadcast(...).catch(...)
SignAndBroadcast ==
  /\ pc = "sign"
  /\ \/ \* wallet.sign rejects, or the catch handler reads err.response.data
        \* of an error without a response
        Throw("TypeError") /\ UNCHANGED waitVars
     \/ \* transport error, logged by the catch handler: data is undefined
        EndTry("broadcastError") /\ UNCHANGED waitVars
     \/ \* the response carries a non-zero code
        EndTry("broadcastRejected") /\ UNCHANGED waitVars
     \/ \* accepted with code 0: the transaction is in the mempool and
        \* waitTx starts its for loop with t = 0
        /\ pc' = "wait"
        /\ chainTx' = PendingTx
        /\ t' = 0 /\ txQueries' = 0 /\ txDelays' = 0
        /\ UNCHANGED <<outcome, lastTry>>
  /\ UNCHANGED <<height, blocks, denomArray, memVars, histVars, aggVars, startMem, slept, localVars>>

\* variant: the code of the confirmed transaction is not looked at
ConfirmedOkIgnoringCode(found, code) == found

\* if (txQueryData && !txQueryData.code)
ConfirmedOk(found, code) == found /\ code = 0

\* variant: the index in the period of the inclusion height is recorded
NextPrevotePeriodByRemainder(includedHeight, sampledPeriod) ==
  IndexInVotePeriod(includedHeight)

\* variant: the period sampled at the start of the iteration is recorded
NextPrevotePeriodSampled(includedHeight, sampledPeriod) == sampledPeriod

\* prevotePeriod = Math.floor(Number(txQueryData.height) / oracleVotePeriod)
NextPrevotePeriod(includedHeight, sampledPeriod) == VotePeriodOf(includedHeight)

\* the hashes carried by the messages of a list that are for denom d
HashesOf(msgs, d) == {msgs[i].hash : i \in {j \in 1..Len(msgs) : msgs[j].denom = d}}

\* what the chain did with the transaction when waitTx returned
ChainVerdict(found, code) ==
  IF ~found THEN "confirmTimeout"
  ELSE IF code = 0 THEN "confirmed" ELSE "confirmRejected"

\* the "successfully broadcast" branch once waitTx returned txQueryData
AfterWaitTx(found, includedHeight, code) ==
  /\ IF ConfirmedOk(found, code)
     THEN LET p == NextPrevotePeriod(includedHeight, votePeriod) IN
          /\ prevotePrices' = ObjectAssign(prevotePrices, priceUpdateMap)
          /\ prevoteSalts' = ObjectAssign(prevoteSalts, priceUpdateSaltMap)
          /\ prevotePeriod' = p
          /\ memPeriod' = [c \in CurrencyCodes |->
                             IF priceUpdateMap[c] # Undefined
                             THEN VotePeriodOf(includedHeight) ELSE memPeriod[c]]
          /\ committed' = [c \in CurrencyCodes |->
                             IF priceUpdateMap[c] # Undefined
                             THEN HashesOf(prevoteMsgs, DenomOf(c)) ELSE committed[c]]
          /\ confirmed' = Append(confirmed, [sampled |-> votePeriod,
                                            included |-> VotePeriodOf(includedHeight)])
     ELSE UNCHANGED <<memVars, histVars>>
  /\ EndTry(ChainVerdict(found, code))

\* waitTx returns txQueryData: a round of its for loop found the transaction
QueryTxFound ==
  /\ pc = "wait"
  /\ chainTx.status = "included"
  /\ AfterWaitTx(TRUE, chainTx.height, chainTx.code)
  /\ UNCHANGED <<height, blocks, denomArray, aggVars, waitVars, startMem, slept, localVars>>

\* waitTx returns undefined: queryTx answered 404 or another error status
\* in each of the secTimeout = 45 rounds of its for loop
WaitTxTimesOut ==
  /\ pc = "wait"
  /\ AfterWaitTx(FALSE, 0, 0)
  /\ UNCHANGED <<height, blocks, denomArray, aggVars, waitVars, startMem, slept, localVars>>

\* waitTx throws: queryTx's catch handler reads err.response.status of an
\* error that has no response (the request got no answer)
QueryTxThrows ==
  /\ pc = "wait"
  /\ Throw("TypeError")
  /\ UNCHANGED <<height, blocks, denomArray, memVars, histVars, aggVars, waitVars, startMem, slept, localVars>>

\* the pacing sleep, up to the history of failed broadcasts
Pace ==
  /\ pc = "sleep"
  /\ pc' = "loop"
  /\ slept' = TRUE
  /\ startMem' = Memory
  /\ UNCHANGED outcome
  /\ currentBlockHeight' = UndefinedNum
  /\ votePeriod' = UndefinedNum
  /\ prices' = <<>> /\ voteMsgs' = <<>> /\ prevoteMsgs' = <<>>
  /\ priceUpdateMap' = NoUpdate /\ priceUpdateSaltMap' = NoUpdate
  /\ UNCHANGED <<chainVars, denomArray, memVars, histVars, aggVars, waitVars>>

\* variant: the for loop of waitTx runs one round more
WaitTxLoopsOnceMore(round) == round <= secTimeout

\* t < secTimeout, the condition of waitTx's for loop
WaitTxLoops(round) == round < secTimeout

\* waitTx: a round of the for loop starts with await Bluebird.delay(1000)
WaitTxDelay ==
  /\ pc = "wait"
  /\ WaitTxLoops(t)
  /\ pc' = "query"
  /\ txDelays' = txDelays + 1
  /\ UNCHANGED <<chainVars, denomArray, memVars, histVars, aggVars, tryVars, localVars,
                 outcome, t, txQueries>>

\* waitTx: const txQueryData = await queryTx(...); if (txQueryData) return txQueryData
QueryTx ==
  /\ pc = "query"
  /\ txQueries' = txQueries + 1
  /\ \/ \* 2xx: the transaction is in a block and the node serves it
        /\ chainTx.status = "included"
        /\ AfterWaitTx(TRUE, chainTx.height, chainTx.code)
        /\ UNCHANGED t
     \/ \* 404 or another error status: the catch handler returns nothing,
        \* res is undefined and the for loop goes on with t += 1
        /\ pc' = "wait"
        /\ t' = t + 1
        /\ UNCHANGED <<chainTx, memVars, histVars, outcome, lastTry>>
     \/ \* no response (timeout of 15 s, connection error): the catch
        \* handler reads err.response.status and throws a TypeError
        /\ Throw("TypeError")
        /\ UNCHANGED <<memVars, histVars, t>>
  /\ UNCHANGED <<height, blocks, denomArray, aggVars, startMem, slept, localVars, txDelays>>

\* waitTx: the for loop ends after secTimeout rounds and waitTx returns undefined
WaitTxGivesUp ==
  /\ pc = "wait"
  /\ ~WaitTxLoops(t)
  /\ AfterWaitTx(FALSE, 0, 0)
  /\ UNCHANGED <<height, blocks, denomArray, aggVars, waitVars, startMem, slept, localVars>>

\* await Bluebird.delay(Math.max(5000, 6000 - (Date.now() - startTime)))
Sleep == Pace /\ UNCHANGED lastTry

\* the same sleep, with the iteration's failed broadcast kept on record
SleepAfterTry ==
  /\ Pace
  /\ lastTry' = IF outcome \in FailedBroadcasts
                THEN [failed |-> TRUE, period |-> votePeriod,
                      currencies |-> CurrenciesOf(Filtered(denomArray, prices)),
                      voteMsgs |-> voteMsgs]
                ELSE NoTry

\* the chain produces a block; a transaction of the mempool may be
\* included in it, with any application code
ProduceBlock ==
  /\ blocks < MaxBlocks
  /\ height' = height + 1
  /\ blocks' = blocks + 1
  /\ \/ UNCHANGED chainTx
     \/ /\ chainTx.status = "pending"
        /\ \E c \in TxCodes : chainTx' = IncludedTx(height + 1, c)
  /\ UNCHANGED <<denomArray, memVars, histVars, aggVars, waitVars, tryVars, localVars, pc, outcome>>

Init == InitLoop /\ AggIdle

Next ==
  \/ QueryLatestBlock
  \/ GetPrices
  \/ QueryAccountAndBuild
  \/ SignAndBroadcast
  \/ QueryTxFound
  \/ WaitTxTimesOut
  \/ QueryTxThrows
  \/ Sleep
  \/ ProduceBlock

Spec == Init /\ [][Next]_vars

\* the loop with the previous iteration's failed broadcast on record,
\* started at height 97 with a list of denoms, over RetryBlocks blocks
InitRetry ==
  /\ Init
  /\ height = 97
  /\ denomArray = denomArrayOf("krw,usd")

\* the chain produces one of the first RetryBlocks blocks
ProduceEarlyBlock == blocks < RetryBlocks /\ ProduceBlock

NextRetry ==
  \/ QueryLatestBlock
  \/ GetPrices
  \/ QueryAccountAndBuild
  \/ SignAndBroadcast
  \/ QueryTxFound
  \/ WaitTxTimesOut
  \/ QueryTxThrows
  \/ SleepAfterTry
  \/ ProduceEarlyBlock

SpecRetry == InitRetry /\ [][NextRetry]_vars

\* the loop with waitTx followed round by round, started at height 97 with
\* a list of denoms, over WaitBlocks blocks
InitWait ==
  /\ Init
  /\ height = 97
  /\ denomArray = denomArrayOf("krw,usd")

\* the chain produces one of the first WaitBlocks blocks
ProduceBlockWhileWaiting == blocks < WaitBlocks /\ ProduceBlock

NextWait ==
  \/ QueryLatestBlock
  \/ GetPrices
  \/ QueryAccountAndBuild
  \/ SignAndBroadcast
  \/ WaitTxDelay
  \/ QueryTx
  \/ WaitTxGivesUp
  \/ Sleep
  \/ ProduceBlockWhileWaiting

\* the timer of Bluebird.delay fires and every request of ax settles
\* (timeout: 15000), so a pending round of waitTx is always taken
SpecWait ==
  /\ InitWait
  /\ [][NextWait]_vars
  /\ WF_vars(WaitTxDelay)
  /\ WF_vars(QueryTx)
  /\ WF_vars(WaitTxGivesUp)

\* getPrices alone, with the sources' answers drawn at the start
InitAgg == InitLoop /\ AggStarted

NextAgg ==
  \/ \E s \in SourceIds : SourceFulfils(s) /\ UNCHANGED loopVars
  \/ \E s \in SourceIds : SourceRejects(s) /\ UNCHANGED loopVars

SpecAgg == InitAgg /\ [][NextAgg]_vars

(* ------------------------------------------------------------------ *)
(* Properties                                                         *)
(* ------------------------------------------------------------------ *)

\* the iteration's transaction has been broadcast and accepted
Broadcast == pc = "wait"

\* the currencies for which the iteration built reveal messages
RevealedCurrencies ==
  IF voteMsgs = <<>> THEN {} ELSE CurrenciesOf(Filtered(denomArray, prices))

\* the messages of a list that are for denom d
MsgsFor(msgs, d) == SelectSeq(msgs, LAMBDA m : m.denom = d)

\* C1 (period pairing, per currency): a broadcast carries a reveal for
\* currency c only if memory holds an entry for c and the sampled period is
\* exactly one more than the period in which the confirmed prevote that
\* wrote c's entry was included.
C1_PeriodPairing ==
  Broadcast =>
    \A c \in RevealedCurrencies :
      /\ prevotePrices[c] # Undefined
      /\ memPeriod[c] # UndefinedNum
      /\ votePeriod - memPeriod[c] = 1

\* C2 (memory integrity under failure): after an iteration whose broadcast
\* raised a transport error or was answered with a non-zero code, or whose
\* confirmation timed out or carried a non-zero code, prevotePrices,
\* prevoteSalts and prevotePeriod equal their values at the iteration's start.
C2_MemoryIntegrity ==
  outcome \in FailedBroadcasts => Memory = startMem

\* C2 witness: a transaction that would have changed a populated memory was
\* included with a non-zero code
C2_Witness ==
  /\ outcome = "confirmRejected"
  /\ prevotePeriod # UndefinedNum
  /\ \E c \in CurrencyCodes :
       /\ priceUpdateMap[c] # Undefined
       /\ prevotePrices[c] # Undefined
       /\ priceUpdateMap[c] # prevotePrices[c]

\* C3 (commit-reveal soundness): every reveal message of a built or broadcast
\* transaction carries a salt and price whose commitment is the hash of a
\* prevote message, for the same denom and validator, of an earlier
\* transaction that was confirmed with code 0.
C3_CommitRevealSound ==
  pc \in {"sign", "wait"} =>
    \A i \in 1..Len(voteMsgs) :
      LET m == voteMsgs[i] IN
      generateVoteHash(m.salt, m.exchange_rate, m.denom, m.validator)
        \in UNION {committed[c] : c \in CurrencyCodes}

\* C3 witness: a broadcast reveals a remembered price that differs from the
\* price of the current sample for that currency
C3_Witness ==
  /\ Broadcast
  /\ \E i \in 1..Len(prices) :
       \E j \in 1..Len(voteMsgs) :
         /\ voteMsgs[j].denom = DenomOf(prices[i].currency)
         /\ voteMsgs[j].exchange_rate # prices[i].price

\* C4 (at most one broadcast per period): the inclusion periods of any two
\* transactions confirmed with code 0 differ, period 0 included.
C4_OnePerPeriod ==
  \A i, j \in 1..Len(confirmed) :
    i # j => confirmed[i].included # confirmed[j].included

\* a response is fresh and valid (created_at parses, at most 30 s old, prices is an array)
FreshValid(n, data) ==
  /\ data.created_at.kind = "iso"
  /\ n - data.created_at.ms <= MaxAgeMs
  /\ data.pricesIsArray

\* the sources that answer with a fresh valid response
FreshSources ==
  {s \in SourceIds : srcPlan[s].fulfilled /\ FreshValid(now, srcPlan[s])}

\* the sources that answer with a valid response created 45 s before now
StaleSources ==
  {s \in SourceIds : /\ srcPlan[s].fulfilled
                     /\ srcPlan[s].pricesIsArray
                     /\ srcPlan[s].created_at = IsoString(now - 45000)}

\* C5 (winner selection under a race): when both sources answer, one with
\* created_at 45 s old and one with a fresh valid response, getPrices returns
\* the prices of the fresh one whatever the order in which the two responses
\* arrive (it fails only when no source yields a fresh valid response).
C5_FreshWins ==
  (aggStatus # "pending" /\ StaleSources # {} /\ FreshSources # {})
    => /\ aggStatus = "returned"
       /\ \E s \in FreshSources : aggPrices = srcPlan[s].prices

\* C6 (aggregator freshness): every list getPrices returns comes from a
\* response whose created_at parses to a time at most 30 s before now.
C6_Freshness ==
  aggStatus = "returned" =>
    LET r == srcPlan[someFirst[1]] IN
    /\ r.created_at.kind = "iso"
    /\ now - r.created_at.ms <= MaxAgeMs

\* the case of C7 for currencies c and d: the sampled period is one more than
\* prevotePeriod, both are in the filtered sample, c's entry was confirmed in
\* the previous period and d has no entry
IndependenceCase(c, d) ==
  /\ prevotePeriod # UndefinedNum
  /\ votePeriod - prevotePeriod = 1
  /\ {c, d} \subseteq CurrenciesOf(Filtered(denomArray, prices))
  /\ prevotePrices[c] # Undefined
  /\ memPeriod[c] = prevotePeriod
  /\ prevotePrices[d] = Undefined

\* C7 (per-currency reveal independence): in that case, once the account
\* is fetched the tick goes on to sign and broadcast a transaction with the
\* reveal for c, no reveal for d, and prevotes for c and d.
C7_RevealIndependence ==
  [][\A c, d \in CurrencyCodes :
       (pc = "account" /\ pc' # "account" /\ outcome' # "skip" /\ IndependenceCase(c, d))
         => /\ pc' = "sign"
            /\ Len(MsgsFor(voteMsgs', DenomOf(c))) = Len(valAddrs)
            /\ Len(MsgsFor(voteMsgs', DenomOf(d))) = 0
            /\ Len(MsgsFor(prevoteMsgs', DenomOf(c))) = Len(valAddrs)
            /\ Len(MsgsFor(prevoteMsgs', DenomOf(d))) = Len(valAddrs)]_vars

\* C8 (the loop survives every in-iteration error): an iteration that ended
\* with an exception other than 'skip' leaves the loop at the top of
\* while (true), ready for another iteration, with prevotePrices,
\* prevoteSalts and prevotePeriod as they were when the iteration started.
C8_LoopSurvives ==
  outcome = "exception" => (pc = "loop" /\ Memory = startMem)

\* C8 witness: an exception was raised after a transaction had been built
\* on a populated memory
C8_Witness ==
  /\ outcome = "exception"
  /\ pc = "loop"
  /\ prevotePeriod # UndefinedNum
  /\ prevoteMsgs # <<>>

\* C9 (pacing on every path): whenever the loop stands at the top of
\* while (true), the pacing sleep has run since the previous iteration
\* started, whatever that iteration's outcome.
C9_AlwaysPaced ==
  pc = "loop" => slept

\* the outcomes after which the loop falls through to the pacing sleep
PacedOutcomes ==
  {"gated", "skip", "nomsgs", "broadcastError", "broadcastRejected",
   "confirmTimeout", "confirmRejected", "confirmed"}

\* C9 as amended: the pacing sleep runs between two iterations unless the
\* first ended with an exception other than 'skip'; after a gated skip, a
\* skip-tick failure, an empty message list, a failed broadcast and a failed
\* or successful confirmation the loop goes through the sleep.
C9_PacedUnlessException ==
  /\ (pc = "loop" /\ ~slept) => outcome = "exception"
  /\ (outcome \in PacedOutcomes /\ ~slept) => pc = "sleep"

\* C9 witness: the loop slept after a failed broadcast and is back at the top
C9_Witness ==
  /\ pc = "loop"
  /\ slept
  /\ outcome = "broadcastRejected"

\* the last element of a non-empty sequence
Last(q) == q[Len(q)]

\* the last confirmed transaction was sampled in a period P and included
\* in period P + 1
IncludedOnePeriodLate ==
  /\ confirmed # <<>>
  /\ Last(confirmed).included = Last(confirmed).sampled + 1

\* C10 (included-height rule): prevotePeriod is the inclusion period of the
\* last confirmed transaction, also when that differs from the period its
\* tick sampled; no transaction built in the inclusion period carries a
\* reveal; and when a transaction sampled in P was included in P + 1, a
\* transaction built in P + 2 reveals every filtered currency of its sample
\* from memory, for every validator.
C10_IncludedHeightRule ==
  /\ confirmed # <<>> => prevotePeriod = Last(confirmed).included
  /\ (pc \in {"sign", "wait"} /\ confirmed # <<>>
        /\ votePeriod = Last(confirmed).included) => voteMsgs = <<>>
  /\ (pc \in {"sign", "wait"} /\ IncludedOnePeriodLate
        /\ votePeriod = Last(confirmed).sampled + 2)
       => \A c \in CurrenciesOf(Filtered(denomArray, prices)) :
            \A v \in 1..Len(valAddrs) :
              \E i \in 1..Len(voteMsgs) :
                voteMsgs[i] = generateVoteMsg(prevotePrices[c], prevoteSalts[c],
                                              DenomOf(c), terraAddress, valAddrs[v])

\* C10 witness: a transaction sampled in period P was included in P + 1 and
\* its prevotes are revealed by a broadcast in period P + 2
C10_Witness ==
  /\ Broadcast
  /\ voteMsgs # <<>>
  /\ IncludedOnePeriodLate
  /\ votePeriod = Last(confirmed).sampled + 2

\* prevote memory is empty and prevotePeriod is unset, as at process start
EmptyState ==
  /\ prevotePeriod = UndefinedNum
  /\ prevotePrices = NoUpdate
  /\ prevoteSalts = NoUpdate

\* the iteration took no action after sampling the height
NoAction ==
  /\ pc \in {"sleep", "loop"}
  /\ prices = <<>>
  /\ voteMsgs = <<>>
  /\ prevoteMsgs = <<>>
  /\ chainTx = NoTx

\* the list msgs holds exactly one prevote message per currency of cs and
\* validator, and nothing else
OnePrevotePer(msgs, cs) ==
  /\ Len(msgs) = Cardinality(cs) * Len(valAddrs)
  /\ \A c \in cs : \A v \in 1..Len(valAddrs) :
       Len(SelectSeq(msgs, LAMBDA m : /\ m.type = "oracle/MsgExchangeRatePrevote"
                                      /\ m.denom = DenomOf(c)
                                      /\ m.validator = valAddrs[v])) = 1

\* the first broadcast of a run: prevotes only, one per validator for each
\* currency of the sample that the filter lists
PrevotesOnly ==
  /\ voteMsgs = <<>>
  /\ prevoteMsgs # <<>>
  /\ OnePrevotePer(prevoteMsgs, CurrenciesOf(Filtered(denomArray, prices)))

\* C11 as stated (cold start, vote period 5): with empty state a tick that
\* sampled height 97 (index 2) is stopped by the phase gate and takes no
\* action; a tick that sampled height 98 (index 3) passes the gate, and its
\* broadcast holds one prevote per configured currency and validator and no
\* reveal.
C11_ColdStart ==
  /\ (EmptyState /\ currentBlockHeight = 97) => (outcome = "gated" /\ NoAction)
  /\ (EmptyState /\ currentBlockHeight = 98) => outcome # "gated"
  /\ (EmptyState /\ currentBlockHeight = 98 /\ Broadcast) => PrevotesOnly

\* C11 as amended: with empty state the tick that samples height 97
\* (index 2 = oracleVotePeriod - 3) passes the phase gate like the tick that
\* samples 98; the broadcast of either holds one prevote per validator for
\* each sample currency of the filter and no reveal.
C11_ColdStartActsAt97 ==
  /\ (EmptyState /\ currentBlockHeight \in {97, 98}) => outcome # "gated"
  /\ (EmptyState /\ currentBlockHeight \in {97, 98} /\ Broadcast) => PrevotesOnly

\* C11 witness: the tick that sampled height 97 on empty state has broadcast
\* prevotes for both configured currencies
C11_Witness ==
  /\ EmptyState
  /\ currentBlockHeight = 97
  /\ Broadcast
  /\ Len(prevoteMsgs) = 2 * Len(valAddrs)

\* the denoms of the currencies a filter lists
FilterDenoms(filter) == {"u" \o filter[i] : i \in 1..Len(filter)}

\* the configured filter is a list of currencies, not `all`
FilterIsList == denomArray # denomArrayOf("all")

\* C12 (denom filter): when the filter is a list of currencies, every
\* prevote and every reveal message the loop builds or broadcasts has the
\* denom "u" + c of a currency c of the filter, whatever the sources return.
C12_DenomFilter ==
  FilterIsList =>
    \A i \in 1..Len(voteMsgs \o prevoteMsgs) :
      (voteMsgs \o prevoteMsgs)[i].denom \in FilterDenoms(denomArray)

\* C12 witness: a broadcast with reveals and prevotes was made from a sample
\* that holds a currency outside the filter and one listed in upper case
C12_Witness ==
  /\ FilterIsList
  /\ Broadcast
  /\ voteMsgs # <<>>
  /\ {"eur", "USD"} \subseteq CurrenciesOf(prices)

\* the iteration ran the Vote and Prevote blocks without throwing
BuiltMsgs == pc \in {"sign", "wait"} \/ outcome = "nomsgs"

\* C13 (default filter `all`): with --denoms all, a tick that passed the
\* gates and obtained a non-empty sample builds one prevote message per
\* validator for every currency of the sample and goes on to sign and
\* broadcast them.
C13_AllMeansAll ==
  (~FilterIsList /\ prices # <<>> /\ BuiltMsgs) =>
    /\ pc \in {"sign", "wait"}
    /\ OnePrevotePer(prevoteMsgs, CurrenciesOf(prices))

\* the currencies of the filtered sample whose memory entry was written by
\* the last confirmed transaction
PairedCurrencies ==
  {c \in CurrenciesOf(Filtered(denomArray, prices)) :
     memPeriod[c] = Last(confirmed).included}

\* msgs holds, for currency c and every validator, the reveal of the
\* remembered price and salt
RevealsFromMemory(msgs, c) ==
  \A v \in 1..Len(valAddrs) :
    \E i \in 1..Len(msgs) :
      msgs[i] = generateVoteMsg(prevotePrices[c], prevoteSalts[c],
                                DenomOf(c), terraAddress, valAddrs[v])

\* C14 (restart / cold start): starting from empty memory, no transaction
\* built before the first confirmation of this run carries a reveal (the
\* first broadcast is prevotes only), and once a prevote transaction is
\* confirmed in period Q, a transaction built in period Q + 1 carries the
\* reveals paired with it.
C14_RestartResumes ==
  /\ (confirmed = <<>> /\ pc \in {"sign", "wait"})
       => (voteMsgs = <<>> /\ prevoteMsgs # <<>>)
  /\ (confirmed # <<>> /\ pc \in {"sign", "wait"}
        /\ votePeriod = Last(confirmed).included + 1)
       => \A c \in PairedCurrencies : RevealsFromMemory(voteMsgs, c)

\* the iteration sampled a height inside the phase window
InPhaseWindow ==
  /\ currentBlockHeight # UndefinedNum
  /\ IndexInVotePeriod(currentBlockHeight) >= oracleVotePeriod - 3

\* the iteration is the tick after a failed broadcast and sampled a height
\* of the same period, inside the phase window
Retrying ==
  /\ lastTry.failed
  /\ votePeriod = lastTry.period
  /\ InPhaseWindow

\* C15 (retry after rejection): after a broadcast of period P that was
\* rejected or not confirmed, the next tick that samples a height of P inside
\* the phase window is not stopped by the gate, works on the memory the
\* failed attempt worked on, and, when its sample lists the same currencies,
\* builds and broadcasts the same reveal messages with one fresh prevote per
\* currency and validator.
C15_RetryAfterRejection ==
  Retrying =>
    /\ outcome # "gated"
    /\ pc \in {"prices", "account", "sign", "wait"} => Memory = startMem
    /\ (pc \in {"sign", "wait"}
          /\ CurrenciesOf(Filtered(denomArray, prices)) = lastTry.currencies)
         => /\ voteMsgs = lastTry.voteMsgs
            /\ OnePrevotePer(prevoteMsgs, lastTry.currencies)

\* C15 witness: a transaction with reveals was included with a non-zero
\* code, and the next tick of the same period has broadcast the same
\* reveals with prevotes of other prices
C15_Witness ==
  /\ Retrying
  /\ Broadcast
  /\ voteMsgs # <<>>
  /\ voteMsgs = lastTry.voteMsgs
  /\ \E i \in 1..Len(prices) : \E j \in 1..Len(voteMsgs) :
       /\ voteMsgs[j].denom = DenomOf(prices[i].currency)
       /\ voteMsgs[j].exchange_rate # prices[i].price

\* prevotePeriod as it was when the iteration sampled the height
PrevotePeriodAtStart == startMem[3]

\* C16 (once-per-period gate): a tick whose sampled period equals
\* prevotePeriod skips without fetching prices or the account, signing or
\* broadcasting, for every value of prevotePeriod, 0 included.
C16_OncePerPeriodGate ==
  (currentBlockHeight # UndefinedNum /\ votePeriod = PrevotePeriodAtStart)
    => (outcome = "gated" /\ NoAction)

\* C17 (phase gate and its frame): an iteration goes past the gate only when
\* the sampled index is at least oracleVotePeriod - 3; an iteration that
\* sampled a smaller index queries no price source and no account, signs
\* and broadcasts nothing, and leaves prevotePrices, prevoteSalts and
\* prevotePeriod as they were.
C17_PhaseGate ==
  /\ pc \in {"prices", "account", "sign", "wait"} => InPhaseWindow
  /\ (currentBlockHeight # UndefinedNum /\ ~InPhaseWindow)
       => (outcome = "gated" /\ NoAction /\ Memory = startMem)

\* C17 witness: with a populated memory of the previous period, a tick
\* sampled index 0 and was stopped by the phase term alone
C17_Witness ==
  /\ outcome = "gated"
  /\ pc = "sleep"
  /\ IndexInVotePeriod(currentBlockHeight) = 0
  /\ prevotePeriod # UndefinedNum
  /\ votePeriod = prevotePeriod + 1
  /\ prevotePrices # NoUpdate

\* the loop is inside waitTx
InWaitTx == pc \in {"wait", "query"}

\* C18 (confirmation is bounded and always finishes): waitTx issues at most
\* secTimeout = 45 tx queries, each after a one-second delay of its own; it
\* returns at the first query that finds the transaction; when 45 queries
\* found nothing it returns nothing, the iteration leaves prevotePrices,
\* prevoteSalts and prevotePeriod alone and goes to the pacing sleep; and
\* the loop always leaves waitTx.
C18_ConfirmationBounded ==
  /\ [](txQueries <= secTimeout /\ t <= secTimeout)
  /\ [](txDelays = IF pc = "query" THEN txQueries + 1 ELSE txQueries)
  /\ []((outcome \in {"confirmed", "confirmRejected"} /\ pc = "sleep")
          => (txQueries = t + 1 /\ chainTx = NoTx))
  /\ []((outcome = "confirmTimeout" /\ pc = "sleep")
          => (txQueries = secTimeout /\ Memory = startMem))
  /\ [][(InWaitTx /\ ~InWaitTx' /\ txQueries' = secTimeout /\ t' = secTimeout)
          => (outcome' = "confirmTimeout" /\ pc' = "sleep")]_vars
  /\ (InWaitTx ~> ~InWaitTx)

\* C18 witness: waitTx gave up after 45 queries that found nothing, the last
\* of them made when the transaction was already in a block, and the loop
\* went on to the pacing sleep
C18_Witness ==
  /\ outcome = "confirmTimeout"
  /\ pc = "sleep"
  /\ txQueries = secTimeout
  /\ height > currentBlockHeight

\* C19 (prevotePeriod never decreases): the chain height does not decrease
\* and a transaction is included above the height its tick sampled; every
\* assignment to prevotePeriod then sets a value that is at least the
\* previous value, when there was one, and at least the period the
\* assigning tick sampled.
C19_PrevotePeriodMonotone ==
  [][/\ height' >= height
     /\ (chainTx'.status = "included" /\ currentBlockHeight # UndefinedNum)
          => chainTx'.height >= currentBlockHeight
     /\ (confirmed' # confirmed \/ prevotePeriod' # prevotePeriod)
          => /\ prevotePeriod' >= votePeriod
             /\ prevotePeriod # UndefinedNum => prevotePeriod' >= prevotePeriod
             /\ prevotePeriod' # UndefinedNum]_vars

\* C19 witness: prevotePeriod was assigned twice, the second time a larger
\* value that is also larger than the period the tick sampled
C19_Witness ==
  /\ Len(confirmed) >= 2
  /\ prevotePeriod = Last(confirmed).included
  /\ Last(confirmed).included > confirmed[Len(confirmed) - 1].included
  /\ Last(confirmed).included > Last(confirmed).sampled

\* C20 (shape of a broadcast): every transaction the loop signs or
\* broadcasts holds at least one prevote message, and for every reveal
\* message it holds a prevote message for the same denom and validator; an
\* iteration whose filtered sample is empty builds no message and
\* broadcasts nothing.
C20_BroadcastShape ==
  /\ pc \in {"sign", "wait", "query"}
       => /\ prevoteMsgs # <<>>
          /\ \A i \in 1..Len(voteMsgs) : \E j \in 1..Len(prevoteMsgs) :
               /\ prevoteMsgs[j].denom = voteMsgs[i].denom
               /\ prevoteMsgs[j].validator = voteMsgs[i].validator
  /\ (BuiltMsgs /\ Filtered(denomArray, prices) = <<>>)
       => (outcome = "nomsgs" /\ voteMsgs = <<>> /\ prevoteMsgs = <<>> /\ chainTx = NoTx)

\* C20 witness: a broadcast holds reveals for two currencies, each with its
\* prevote, from a sample that also holds a currency outside the filter
C20_Witness ==
  /\ Broadcast
  /\ Len(voteMsgs) = 2 * Len(valAddrs)
  /\ Len(prevoteMsgs) = 2 * Len(valAddrs)
  /\ Len(prices) = 3

====
